---------------------------- MODULE Spec2Model ----------------------------
(***************************************************************************)
(* A model of package run (github.com/Mat-Greaves/run): Sequence, Group,   *)
(* Once and Start/Ready, translated from run.go.                           *)
(*                                                                         *)
(* Each composite is explored by its own specification over one shared     *)
(* tuple of variables:                                                     *)
(*   Spec       one invocation of Group.run (either policy)                *)
(*   FairSpec   the same, with the scheduling the Go runtime guarantees    *)
(*   SpecSeq    one invocation of Sequence.Run                             *)
(*   SpecOnce   concurrent and repeated callers of one Once wrapper        *)
(*   SpecStart  one call of Start and of the stop closure it returns       *)
(*   FairSpecStart  the same, with scheduling fairness                     *)
(***************************************************************************)
EXTENDS Integers, Sequences, FiniteSets, TLC

(***************************************************************************)
(* Bounds of the exploration.                                              *)
(***************************************************************************)
MaxMembers == 2

AllNames == <<"foo", "bar", "baz", "qux", "quux">>

Names == {AllNames[i] : i \in 1..MaxMembers}

(***************************************************************************)
(* Error values.  An error is a record: the format prefix that built it    *)
(* (tag), the arguments printed into its message with %s / %v / %d (args,  *)
(* pos), and the errors it wraps with %w (subs).  Nil is Go's nil error.   *)
(***************************************************************************)
Nil == [tag |-> "nil", args |-> {}, pos |-> <<>>, subs |-> <<>>]

Sentinel(t) == [tag |-> t, args |-> {}, pos |-> <<>>, subs |-> <<>>]

ErrExited == Sentinel("runner exited early")

ErrTimeout == Sentinel("one or more runners did not exit in time")

Canceled == Sentinel("context canceled")

DeadlineExceeded == Sentinel("context deadline exceeded")

\* the error a member of the tests returns (innerErr), one value per member
InnerErr(m) == [tag |-> "inner", args |-> {m}, pos |-> <<>>, subs |-> <<>>]

\* fmt.Errorf(tag + ": %w" ...): a new error that prints args and wraps subs
Errorf(tag, args, pos, subs) ==
  [tag |-> tag, args |-> args, pos |-> pos, subs |-> subs]

\* errors.Is(err, target): target is err or is in the tree err wraps
RECURSIVE Is(_, _)
Is(err, target) ==
  \/ err = target
  \/ \E i \in DOMAIN err.subs : Is(err.subs[i], target)

\* err.Error() contains the text of v: printed by this error or by one it wraps
RECURSIVE Mentions(_, _)
Mentions(err, v) ==
  \/ v \in err.args
  \/ \E i \in DOMAIN err.subs : Mentions(err.subs[i], v)

(***************************************************************************)
(* context.Context: the value of ctx.Err().                                *)
(***************************************************************************)
CtxErrValue(c) ==
  CASE c = "Canceled" -> Canceled
    [] c = "DeadlineExceeded" -> DeadlineExceeded
    [] OTHER -> Nil

\* cancel() of a context.WithCancel: the first cause of a context sticks
CancelCtx(c) == IF c = "live" THEN "Canceled" ELSE c

\* a child context is done as soon as its parent is, with the parent's error
ParentDone(c, parentErr) == IF c = "live" THEN parentErr ELSE c

(***************************************************************************)
(* Panic payloads: the value given to panic(), an error or any other value *)
(***************************************************************************)
NoPanic == [isErr |-> FALSE, err |-> Nil, val |-> ""]

PanicErr(e) == [isErr |-> TRUE, err |-> e, val |-> ""]

PanicVal(v) == [isErr |-> FALSE, err |-> Nil, val |-> v]

VARIABLES
  \* ---- Group.run
  g,             \* the members of the Group (keys of the map)
  cancelOnExit,  \* the policy flag of this invocation
  inCtx,         \* Err() of the context handed to Group.run: live/Canceled/DeadlineExceeded
  ctxErr,        \* Err() of the derived context the members run with
  member,        \* per member: position of its goroutine, what Run produced
  errs,          \* the buffered result channel
  exited,        \* exited[name]
  cause,         \* cause
  exitTimeout,   \* "nil" or "armed": the timer channel of the select
  iter,          \* iterations of `for range g` completed
  gpc,           \* "running" or "returned"
  gret,          \* what Group.run returned
  gpath,         \* how it returned: "", "all", "timeout"
  first,         \* history: the first entry the loop consumed (<<>> before)
  timerArms,     \* history: number of time.After calls
  stuckAtFire,   \* history: members whose Run had not returned when the timer fired
  earlyNil       \* history: members whose Run returned nil while a sibling's Run had not returned

VARIABLES
  \* ---- Sequence.Run
  slen,          \* len(s)
  si,            \* the loop index i
  spc,           \* "idle", "loop", "inRun", "returned", "panicked"
  sret,          \* what Sequence.Run returned
  sruns,         \* history: how many times member i was run
  sfail          \* history: the index of the member that returned an error, or -1

VARIABLES
  \* ---- Once
  onceDone,      \* sync.Once: done
  onceMu,        \* sync.Once: the caller holding the mutex, 0 when free
  onceErr,       \* the captured variable err
  cpc,           \* per caller: "idle", "slow", "exec", "ret", "panicked"
  calls,         \* per caller: invocations of the wrapper completed
  execCount,     \* history: executions of the wrapped r.Run begun
  execOut,       \* history: <<>>, <<"ret", e>> or <<"panic", Nil>>: how the execution ended
  rets,          \* history: the values invocations of the wrapper returned
  earlyRet       \* history: an invocation returned before the execution had ended

VARIABLES
  \* ---- Start, Ready and Go
  outerCtx,      \* Err() of the context handed to Start
  startPc,       \* "idle", "waitReady", "gotReady", "waitDone", "returned"
  startSig,      \* the value Start received from readych
  startErr,      \* the error Start returned
  hasStop,       \* Start returned a non-nil stop closure
  readyClosed,   \* readych has been closed (the deferred close)
  goPc,          \* the goroutine of Go: "idle", "running", "finished"
  stopPc,        \* per call of stop: "idle", "waitDone", "returned"
  stopRet        \* per call of stop: the error it returned

VARIABLES
  \* ---- Go
  gorPc,         \* per call of Go: "idle", "inRun", "sending", "done", "crashed"
  gorVal,        \* per call: the operand of the pending send on res
  gorPan,        \* per call: the value r.Run panicked with (NoPanic if it did not)
  gorRet,        \* history, per call: <<e>> once r.Run has returned e
  res            \* history: the values sent on res, in order, with their sender

VARIABLES
  \* ---- onexit: Killer and the helper script
  kseq,          \* Killer.seq
  kpipe,         \* the lines written to the pipe w and not yet read by the helper
  kClosed,       \* Close has closed w
  hcmds,         \* the helper's array cmds: index -> text ("" once cancelled)
  hpc,           \* the helper: "reading", "running", "done"
  hnext,         \* the helper's position in `for cmd in "${cmds[@]}"`
  hran,          \* history: the commands the helper has run, in order
  hindex,        \* history: per sequence number, the index the helper stored its command at
  kqueued,       \* history: the OnExit calls that succeeded, and their cancel calls
  dseq,          \* DefaultKiller.seq
  dpipe,         \* the lines written to the pipe of DefaultKiller
  kkills         \* history: the calls of Kill on k, and their cancel calls

groupVars == <<g, cancelOnExit, inCtx, ctxErr, member, errs, exited, cause,
               exitTimeout, iter, gpc, gret, gpath, first, timerArms, stuckAtFire,
               earlyNil>>

\* ctxErr is shared: it is the context every runner of a specification runs with
seqVars == <<slen, si, spc, sret, sruns, sfail>>

onceVars == <<onceDone, onceMu, onceErr, cpc, calls, execCount, execOut, rets, earlyRet>>

startVars == <<outerCtx, startPc, startSig, startErr, hasStop, readyClosed, goPc,
               stopPc, stopRet>>

goVars == <<gorPc, gorVal, gorPan, gorRet, res>>

\* the components added to the model after Start
ownVars == <<kseq, kpipe, kClosed, hcmds, hpc, hnext, hran, hindex, kqueued>>

\* the package's DefaultKiller, and the calls of k.Kill
defVars == <<dseq, dpipe, kkills>>

killVars == <<ownVars, defVars>>

auxVars == <<goVars, killVars>>

vars == <<groupVars, seqVars, onceVars, startVars, auxVars>>

\* what an action of Group.run leaves alone outside Group.run
groupEnv == <<seqVars, onceVars, startVars, auxVars>>

(***************************************************************************)
(* Group.run                                                               *)
(***************************************************************************)
GroupErr(name, err) == [runner |-> name, err |-> err]

\* mutant: the recovered error value is printed with %v instead of wrapped with %w
GroupRecover_Formats(r) ==
  Errorf("run.Group recover", {r.val}, <<>>, <<>>)

\* the deferred recover of a member goroutine: the error it reports for panic r
GroupRecover(r) ==
  IF r.isErr
  THEN Errorf("run.Group recover", {}, <<>>, <<r.err>>)
  ELSE Errorf("run.Group recover", {r.val}, <<>>, <<>>)

\* recover() returns non-nil for every panic, so the deferred function reports it
Recovered(r) == r # NoPanic

\* mutant: the member's error is printed into the cause with %v, not wrapped
RecordCause_Formats(c, gerr, policy) ==
  LET c1 == IF c = Nil /\ gerr.err # Nil
            THEN Errorf("run.Group", {gerr.runner}, <<>>, <<>>)
            ELSE c
  IN IF gerr.err = Nil /\ policy /\ c1 = Nil
     THEN Errorf("run.Group", {gerr.runner}, <<>>, <<ErrExited>>)
     ELSE c1

\* mutant: a nil exit never becomes a cause, whatever the policy
RecordCause_PolicyNever(c, gerr, policy) ==
  IF c = Nil /\ gerr.err # Nil
  THEN Errorf("run.Group", {gerr.runner}, <<>>, <<gerr.err>>)
  ELSE c

\* mutant: a nil exit becomes a cause, whatever the policy
RecordCause_PolicyAlways(c, gerr, policy) ==
  LET c1 == IF c = Nil /\ gerr.err # Nil
            THEN Errorf("run.Group", {gerr.runner}, <<>>, <<gerr.err>>)
            ELSE c
  IN IF gerr.err = Nil /\ c1 = Nil
     THEN Errorf("run.Group", {gerr.runner}, <<>>, <<ErrExited>>)
     ELSE c1

\* mutant: a later qualifying entry replaces the cause
RecordCause_LastWins(c, gerr, policy) ==
  IF gerr.err # Nil
  THEN Errorf("run.Group", {gerr.runner}, <<>>, <<gerr.err>>)
  ELSE IF policy
       THEN Errorf("run.Group", {gerr.runner}, <<>>, <<ErrExited>>)
       ELSE c

\* the two `if` statements that record the cause of an entry
RecordCause(c, gerr, policy) ==
  LET c1 == IF c = Nil /\ gerr.err # Nil
            THEN Errorf("run.Group", {gerr.runner}, <<>>, <<gerr.err>>)
            ELSE c
  IN IF gerr.err = Nil /\ policy /\ c1 = Nil
     THEN Errorf("run.Group", {gerr.runner}, <<>>, <<ErrExited>>)
     ELSE c1

\* mutant: every member is collected, whether or not it has reported
Running_All(ex) == DOMAIN ex

\* mutant: the test of `done` is inverted
Running_Inverted(ex) == {name \in DOMAIN ex : ex[name]}

\* the names collected on the timeout branch
Running(ex) == {name \in DOMAIN ex : ~ex[name]}

TimeoutErr(running, c) ==
  Errorf("shutdown cause", running, <<>>, <<ErrTimeout, c>>)

\* mutant: the final return does not look at the incoming context
GroupResult_NoCheck(in, c) == c

\* mutant: a cancelled incoming context is reported as the error
GroupResult_CancelIsError(in, c) == IF in = "Canceled" THEN Canceled ELSE c

\* mutant: the cause is dropped whenever the incoming context is done
GroupResult_AnyDone(in, c) == IF in # "live" THEN Nil ELSE c

\* the value returned once the loop has run len(g) times
GroupResult(in, c) == IF in = "Canceled" THEN Nil ELSE c

Idle0 == [pc |-> "none", out |-> Nil, pan |-> NoPanic]

InitGroup ==
  /\ g \in SUBSET Names
  /\ cancelOnExit \in BOOLEAN
  /\ inCtx = "live"
  /\ ctxErr = "live"
  /\ member = [m \in Names |->
                 IF m \in g THEN [pc |-> "running", out |-> Nil, pan |-> NoPanic]
                 ELSE Idle0]
  /\ errs = <<>>
  /\ exited = [m \in g |-> FALSE]
  /\ cause = Nil
  /\ exitTimeout = "nil"
  /\ iter = 0
  /\ gpc = "running"
  /\ gret = Nil
  /\ gpath = ""
  /\ first = <<>>
  /\ timerArms = 0
  /\ stuckAtFire = {}
  /\ earlyNil = {}

\* the context handed to Group.run is cancelled by its owner
ParentCancel ==
  /\ gpc = "running"
  /\ inCtx = "live"
  /\ inCtx' = "Canceled"
  /\ ctxErr' = ParentDone(ctxErr, "Canceled")
  /\ UNCHANGED <<g, cancelOnExit, member, errs, exited, cause, exitTimeout,
                 iter, gpc, gret, gpath, first, timerArms, stuckAtFire, earlyNil>>
  /\ UNCHANGED groupEnv

\* the deadline of the context handed to Group.run passes
ParentDeadline ==
  /\ gpc = "running"
  /\ inCtx = "live"
  /\ inCtx' = "DeadlineExceeded"
  /\ ctxErr' = ParentDone(ctxErr, "DeadlineExceeded")
  /\ UNCHANGED <<g, cancelOnExit, member, errs, exited, cause, exitTimeout,
                 iter, gpc, gret, gpath, first, timerArms, stuckAtFire, earlyNil>>
  /\ UNCHANGED groupEnv

\* r.Run(ctx) of member m returns nil
MemberReturnNil(m) ==
  /\ member[m].pc = "running"
  /\ member' = [member EXCEPT ![m] = [pc |-> "returned", out |-> Nil, pan |-> NoPanic]]
  /\ earlyNil' = IF \E o \in g \ {m} : member[o].pc = "running"
                 THEN earlyNil \cup {m} ELSE earlyNil
  /\ UNCHANGED <<g, cancelOnExit, inCtx, ctxErr, errs, exited, cause, exitTimeout,
                 iter, gpc, gret, gpath, first, timerArms, stuckAtFire>>
  /\ UNCHANGED groupEnv

\* r.Run(ctx) of member m returns an error of its own
MemberReturnErr(m) ==
  /\ member[m].pc = "running"
  /\ member' = [member EXCEPT ![m] = [pc |-> "returned", out |-> InnerErr(m), pan |-> NoPanic]]
  /\ UNCHANGED <<g, cancelOnExit, inCtx, ctxErr, errs, exited, cause, exitTimeout,
                 iter, gpc, gret, gpath, first, timerArms, stuckAtFire, earlyNil>>
  /\ UNCHANGED groupEnv

\* r.Run(ctx) of member m sees ctx.Done() and returns ctx.Err()
MemberReturnCtxErr(m) ==
  /\ member[m].pc = "running"
  /\ ctxErr # "live"
  /\ member' = [member EXCEPT ![m] = [pc |-> "returned", out |-> CtxErrValue(ctxErr), pan |-> NoPanic]]
  /\ UNCHANGED <<g, cancelOnExit, inCtx, ctxErr, errs, exited, cause, exitTimeout,
                 iter, gpc, gret, gpath, first, timerArms, stuckAtFire, earlyNil>>
  /\ UNCHANGED groupEnv

\* r.Run(ctx) of member m panics with payload r; the deferred function recovers
MemberPanic(m, r) ==
  /\ member[m].pc = "running"
  /\ member' = [member EXCEPT ![m] =
                  IF Recovered(r)
                  THEN [pc |-> "recovered", out |-> GroupRecover(r), pan |-> r]
                  ELSE [pc |-> "crashed", out |-> Nil, pan |-> r]]
  /\ UNCHANGED <<g, cancelOnExit, inCtx, ctxErr, errs, exited, cause, exitTimeout,
                 iter, gpc, gret, gpath, first, timerArms, stuckAtFire, earlyNil>>
  /\ UNCHANGED groupEnv

\* mutant: errs is made without a buffer, a send needs the loop to receive it
MemberSend_Unbuffered(m) ==
  /\ member[m].pc \in {"returned", "recovered"}
  /\ gpc = "running"
  /\ iter < Cardinality(g)
  /\ Len(errs) < 1
  /\ errs' = Append(errs, GroupErr(m, member[m].out))
  /\ member' = [member EXCEPT ![m].pc = "sent"]
  /\ UNCHANGED <<g, cancelOnExit, inCtx, ctxErr, exited, cause, exitTimeout,
                 iter, gpc, gret, gpath, first, timerArms, stuckAtFire, earlyNil>>
  /\ UNCHANGED groupEnv

\* errs <- groupErr{runner: name, err: err}; blocks while the buffer is full
MemberSend(m) ==
  /\ member[m].pc \in {"returned", "recovered"}
  /\ Len(errs) < Cardinality(g) + 1
  /\ errs' = Append(errs, GroupErr(m, member[m].out))
  /\ member' = [member EXCEPT ![m].pc = "sent"]
  /\ UNCHANGED <<g, cancelOnExit, inCtx, ctxErr, exited, cause, exitTimeout,
                 iter, gpc, gret, gpath, first, timerArms, stuckAtFire, earlyNil>>
  /\ UNCHANGED groupEnv

\* mutant: cancel() is called for every entry, whether or not a cause exists
GroupRecv_CancelsAlways ==
  /\ gpc = "running"
  /\ iter < Cardinality(g)
  /\ errs # <<>>
  /\ LET gerr == Head(errs)
         c == RecordCause(cause, gerr, cancelOnExit)
     IN /\ errs' = Tail(errs)
        /\ exited' = [exited EXCEPT ![gerr.runner] = TRUE]
        /\ cause' = c
        /\ first' = IF first = <<>> THEN <<gerr>> ELSE first
        /\ ctxErr' = CancelCtx(ctxErr)
        /\ IF c # Nil
           THEN /\ exitTimeout' = "armed"
                /\ timerArms' = timerArms + 1
           ELSE UNCHANGED <<exitTimeout, timerArms>>
  /\ iter' = iter + 1
  /\ UNCHANGED <<g, cancelOnExit, inCtx, member, gpc, gret, gpath, stuckAtFire, earlyNil>>
  /\ UNCHANGED groupEnv

\* case gerr := <-errs
GroupRecv ==
  /\ gpc = "running"
  /\ iter < Cardinality(g)
  /\ errs # <<>>
  /\ LET gerr == Head(errs)
         c == RecordCause(cause, gerr, cancelOnExit)
     IN /\ errs' = Tail(errs)
        /\ exited' = [exited EXCEPT ![gerr.runner] = TRUE]
        /\ cause' = c
        /\ first' = IF first = <<>> THEN <<gerr>> ELSE first
        /\ IF c # Nil
           THEN /\ ctxErr' = CancelCtx(ctxErr)
                /\ exitTimeout' = "armed"
                /\ timerArms' = timerArms + 1
           ELSE UNCHANGED <<ctxErr, exitTimeout, timerArms>>
  /\ iter' = iter + 1
  /\ UNCHANGED <<g, cancelOnExit, inCtx, member, gpc, gret, gpath, stuckAtFire, earlyNil>>
  /\ UNCHANGED groupEnv

\* case <-exitTimeout, then the deferred cancel()
GroupTimeout ==
  /\ gpc = "running"
  /\ iter < Cardinality(g)
  /\ exitTimeout = "armed"
  /\ gret' = TimeoutErr(Running(exited), cause)
  /\ gpath' = "timeout"
  /\ gpc' = "returned"
  /\ ctxErr' = CancelCtx(ctxErr)
  /\ stuckAtFire' = {m \in g : member[m].pc = "running"}
  /\ UNCHANGED <<g, cancelOnExit, inCtx, member, errs, exited, cause, exitTimeout,
                 iter, first, timerArms, earlyNil>>
  /\ UNCHANGED groupEnv

\* mutant: Group.run returns without the deferred cancel()
GroupReturn_NoDefer ==
  /\ gpc = "running"
  /\ iter = Cardinality(g)
  /\ gret' = GroupResult(inCtx, cause)
  /\ gpath' = "all"
  /\ gpc' = "returned"
  /\ UNCHANGED <<g, cancelOnExit, inCtx, ctxErr, member, errs, exited, cause, exitTimeout,
                 iter, first, timerArms, stuckAtFire, earlyNil>>
  /\ UNCHANGED groupEnv

\* the loop has run len(g) times: the final return, then the deferred cancel()
GroupReturn ==
  /\ gpc = "running"
  /\ iter = Cardinality(g)
  /\ gret' = GroupResult(inCtx, cause)
  /\ gpath' = "all"
  /\ gpc' = "returned"
  /\ ctxErr' = CancelCtx(ctxErr)
  /\ UNCHANGED <<g, cancelOnExit, inCtx, member, errs, exited, cause, exitTimeout,
                 iter, first, timerArms, stuckAtFire, earlyNil>>
  /\ UNCHANGED groupEnv

NextGroup ==
  \/ ParentCancel
  \/ ParentDeadline
  \/ \E m \in g : MemberReturnNil(m)
  \/ \E m \in g : MemberReturnErr(m)
  \/ \E m \in g : MemberReturnCtxErr(m)
  \/ \E m \in g : \E r \in {PanicErr(InnerErr(m)), PanicVal("eek")} : MemberPanic(m, r)
  \/ \E m \in g : MemberSend(m)
  \/ GroupRecv
  \/ GroupTimeout
  \/ GroupReturn

\* the variables of Group.run in a specification that runs no Group
GroupIdle ==
  /\ g = {}
  /\ cancelOnExit = TRUE
  /\ inCtx = "live"
  /\ ctxErr = "live"
  /\ member = [m \in Names |-> Idle0]
  /\ errs = <<>>
  /\ exited = <<>>
  /\ cause = Nil
  /\ exitTimeout = "nil"
  /\ iter = 0
  /\ gpc = "idle"
  /\ gret = Nil
  /\ gpath = ""
  /\ first = <<>>
  /\ timerArms = 0
  /\ stuckAtFire = {}
  /\ earlyNil = {}

(***************************************************************************)
(* Sequence.Run                                                            *)
(***************************************************************************)
MaxSeqLen == 4

\* what an action of Sequence.Run leaves alone outside Sequence.Run
seqEnv == <<groupVars, onceVars, startVars, auxVars>>

\* fmt.Errorf("sequence [%d:%d]: %w", i, len(s)-1, err)
SequenceErr(i, n, err) == Errorf("sequence", {}, <<i, n - 1>>, <<err>>)

\* the error member i of the Sequence returns when it fails
SeqErr(i) == InnerErr(AllNames[(i % Len(AllNames)) + 1])

InitSeq ==
  /\ slen \in 0..MaxSeqLen
  /\ si = 0
  /\ spc = "loop"
  /\ sret = Nil
  /\ sruns = [i \in 0..(slen - 1) |-> 0]
  /\ sfail = -1

SeqIdle ==
  /\ slen = 0
  /\ si = 0
  /\ spc = "idle"
  /\ sret = Nil
  /\ sruns = <<>>
  /\ sfail = -1

\* err := r.Run(ctx) is entered for member i
SeqCall ==
  /\ spc = "loop"
  /\ si < slen
  /\ spc' = "inRun"
  /\ sruns' = [sruns EXCEPT ![si] = @ + 1]
  /\ UNCHANGED <<slen, si, sret, sfail>>

\* member i returned nil: the loop goes on
SeqMemberNil ==
  /\ spc = "inRun"
  /\ si' = si + 1
  /\ spc' = "loop"
  /\ UNCHANGED <<slen, sret, sruns, sfail>>

\* mutant: the error of member i is dropped and the loop goes on
SeqMemberErr_Swallow(err) ==
  /\ spc = "inRun"
  /\ err # Nil
  /\ si' = si + 1
  /\ sfail' = IF sfail = -1 THEN si ELSE sfail
  /\ spc' = "loop"
  /\ UNCHANGED <<slen, sret, sruns>>

\* member i returned err # nil: Sequence.Run returns it wrapped
SeqMemberErr(err) ==
  /\ spc = "inRun"
  /\ err # Nil
  /\ sret' = SequenceErr(si, slen, err)
  /\ sfail' = si
  /\ spc' = "returned"
  /\ UNCHANGED <<slen, si, sruns>>

\* member i panicked: Sequence.Run has no recover, the panic leaves it
SeqMemberPanic ==
  /\ spc = "inRun"
  /\ spc' = "panicked"
  /\ UNCHANGED <<slen, si, sret, sruns, sfail>>

\* the range is exhausted: return nil
SeqReturn ==
  /\ spc = "loop"
  /\ si >= slen
  /\ sret' = Nil
  /\ spc' = "returned"
  /\ UNCHANGED <<slen, si, sruns, sfail>>

\* the context handed to Sequence.Run is cancelled, or its deadline passes
SeqCtxDone(kind) ==
  /\ spc \in {"loop", "inRun"}
  /\ ctxErr = "live"
  /\ ctxErr' = kind
  /\ UNCHANGED <<g, cancelOnExit, inCtx, member, errs, exited, cause, exitTimeout,
                 iter, gpc, gret, gpath, first, timerArms, stuckAtFire, earlyNil>>
  /\ UNCHANGED <<seqVars, onceVars, startVars, auxVars>>

NextSeq ==
  \/ SeqCall /\ UNCHANGED seqEnv
  \/ SeqMemberNil /\ UNCHANGED seqEnv
  \/ SeqMemberErr(SeqErr(si)) /\ UNCHANGED seqEnv
  \/ (ctxErr # "live" /\ SeqMemberErr(CtxErrValue(ctxErr)) /\ UNCHANGED seqEnv)
  \/ SeqMemberPanic /\ UNCHANGED seqEnv
  \/ SeqReturn /\ UNCHANGED seqEnv
  \/ \E kind \in {"Canceled", "DeadlineExceeded"} : SeqCtxDone(kind)

(***************************************************************************)
(* Once                                                                    *)
(***************************************************************************)
MaxCallers == 3

MaxCalls == 2

Callers == 1..MaxCallers

onceEnv == <<groupVars, seqVars, startVars, auxVars>>

InitOnce ==
  /\ onceDone = FALSE
  /\ onceMu = 0
  /\ onceErr = Nil
  /\ cpc = [c \in Callers |-> "idle"]
  /\ calls = [c \in Callers |-> 0]
  /\ execCount = 0
  /\ execOut = <<>>
  /\ rets = {}
  /\ earlyRet = FALSE

\* sync.Once.Do: the fast path is taken when done is already set
OnceFastPath(done) == done

\* mutant: doSlow does not look at done again once it holds the mutex
OnceMustRun_NoRecheck(done) == TRUE

\* doSlow, under the mutex: f is called only if done is still unset
OnceMustRun(done) == ~done

\* a caller invokes the wrapper: once.Do looks at done
OnceCall(c) ==
  /\ cpc[c] = "idle"
  /\ calls[c] < MaxCalls
  /\ cpc' = [cpc EXCEPT ![c] = IF OnceFastPath(onceDone) THEN "ret" ELSE "slow"]
  /\ UNCHANGED <<onceDone, onceMu, onceErr, calls, execCount, execOut, rets, earlyRet>>

\* mutant: a caller that finds the mutex held does not wait for it
OnceLock_TryLock(c) ==
  /\ cpc[c] = "slow"
  /\ IF onceMu # 0
     THEN /\ cpc' = [cpc EXCEPT ![c] = "ret"]
          /\ UNCHANGED <<onceMu, execCount>>
     ELSE IF ~onceDone
          THEN /\ onceMu' = c
               /\ cpc' = [cpc EXCEPT ![c] = "exec"]
               /\ execCount' = execCount + 1
          ELSE /\ cpc' = [cpc EXCEPT ![c] = "ret"]
               /\ UNCHANGED <<onceMu, execCount>>
  /\ UNCHANGED <<onceDone, onceErr, calls, execOut, rets, earlyRet>>

\* doSlow: o.m.Lock(), then either f() is entered or the mutex is released
OnceLock(c) ==
  /\ cpc[c] = "slow"
  /\ onceMu = 0
  /\ IF OnceMustRun(onceDone)
     THEN /\ onceMu' = c
          /\ cpc' = [cpc EXCEPT ![c] = "exec"]
          /\ execCount' = execCount + 1
     ELSE /\ cpc' = [cpc EXCEPT ![c] = "ret"]
          /\ UNCHANGED <<onceMu, execCount>>
  /\ UNCHANGED <<onceDone, onceErr, calls, execOut, rets, earlyRet>>

\* err = r.Run(ctx) returns e; the deferred done.Store(1) and Unlock() run
OnceRunReturn(c, e) ==
  /\ cpc[c] = "exec"
  /\ onceErr' = e
  /\ onceDone' = TRUE
  /\ onceMu' = 0
  /\ cpc' = [cpc EXCEPT ![c] = "ret"]
  /\ execOut' = IF execOut = <<>> THEN <<"ret", e>> ELSE execOut
  /\ UNCHANGED <<calls, execCount, rets, earlyRet>>

\* r.Run(ctx) panics: err is not assigned, the deferred done.Store(1) and
\* Unlock() run, and the panic leaves the wrapper
OncePanic(c) ==
  /\ cpc[c] = "exec"
  /\ onceDone' = TRUE
  /\ onceMu' = 0
  /\ cpc' = [cpc EXCEPT ![c] = "panicked"]
  /\ execOut' = IF execOut = <<>> THEN <<"panic", Nil>> ELSE execOut
  /\ UNCHANGED <<onceErr, calls, execCount, rets, earlyRet>>

\* return err
OnceReturn(c) ==
  /\ cpc[c] = "ret"
  /\ rets' = rets \cup {onceErr}
  /\ earlyRet' = (earlyRet \/ execOut = <<>>)
  /\ calls' = [calls EXCEPT ![c] = @ + 1]
  /\ cpc' = [cpc EXCEPT ![c] = "idle"]
  /\ UNCHANGED <<onceDone, onceMu, onceErr, execCount, execOut>>

\* the caller of a wrapper that panicked recovers (as a Group member does) and
\* may call again
OnceCallerRecovers(c) ==
  /\ cpc[c] = "panicked"
  /\ calls' = [calls EXCEPT ![c] = @ + 1]
  /\ cpc' = [cpc EXCEPT ![c] = "idle"]
  /\ UNCHANGED <<onceDone, onceMu, onceErr, execCount, execOut, rets, earlyRet>>

OnceIdle ==
  /\ onceDone = FALSE
  /\ onceMu = 0
  /\ onceErr = Nil
  /\ cpc = <<>>
  /\ calls = <<>>
  /\ execCount = 0
  /\ execOut = <<>>
  /\ rets = {}
  /\ earlyRet = FALSE

NextOnce ==
  \/ \E c \in Callers : OnceCall(c) /\ UNCHANGED onceEnv
  \/ \E c \in Callers : OnceLock(c) /\ UNCHANGED onceEnv
  \/ \E c \in Callers : \E e \in {Nil, InnerErr("r")} : OnceRunReturn(c, e) /\ UNCHANGED onceEnv
  \/ \E c \in Callers : OncePanic(c) /\ UNCHANGED onceEnv
  \/ \E c \in Callers : OnceReturn(c) /\ UNCHANGED onceEnv
  \/ \E c \in Callers : OnceCallerRecovers(c) /\ UNCHANGED onceEnv

(***************************************************************************)
(* Start, Ready and Go                                                     *)
(*                                                                         *)
(* Start runs Group{"runner": runner, "ready": Sequence{ready, publish,    *)
(* Idle}} through Go.  The Group is the one of Group.run above with        *)
(* inCtx the context Start derives; the Sequence is the one of             *)
(* Sequence.Run above with its three members given their behaviour here.   *)
(***************************************************************************)
MaxStopCalls == 2

StopCalls == 1..MaxStopCalls

ReadyMembers == {"runner", "ready"}

\* mutant: Start returns the value received from done as it is
NotReadyErr_Bare(e) == e

\* fmt.Errorf("runner not ready: %w", <-done): non-nil even when it wraps nil
NotReadyErr(e) == Errorf("runner not ready", {}, <<>>, <<e>>)

\* what stop returns for the value it received from done
StopResult(e) ==
  IF e # Nil
  THEN Errorf("run.Start: runner shutdown with error", {}, <<>>, <<e>>)
  ELSE Nil

StartIdle ==
  /\ outerCtx = "live"
  /\ startPc = "idle"
  /\ startSig = Nil
  /\ startErr = Nil
  /\ hasStop = FALSE
  /\ readyClosed = FALSE
  /\ goPc = "idle"
  /\ stopPc = <<>>
  /\ stopRet = <<>>

\* Start has derived its context, made readych and done, called Go and is
\* blocked in err = <-readych; every goroutine has been launched
InitStart ==
  /\ outerCtx = "live"
  /\ startPc = "waitReady"
  /\ startSig = Nil
  /\ startErr = Nil
  /\ hasStop = FALSE
  /\ readyClosed = FALSE
  /\ goPc = "running"
  /\ stopPc = [k \in StopCalls |-> "idle"]
  /\ stopRet = [k \in StopCalls |-> Nil]
  /\ g = ReadyMembers
  /\ cancelOnExit = TRUE
  /\ inCtx = "live"
  /\ ctxErr = "live"
  /\ member = [m \in ReadyMembers |-> [pc |-> "running", out |-> Nil, pan |-> NoPanic]]
  /\ errs = <<>>
  /\ exited = [m \in ReadyMembers |-> FALSE]
  /\ cause = Nil
  /\ exitTimeout = "nil"
  /\ iter = 0
  /\ gpc = "running"
  /\ gret = Nil
  /\ gpath = ""
  /\ first = <<>>
  /\ timerArms = 0
  /\ stuckAtFire = {}
  /\ earlyNil = {}
  /\ slen = 3
  /\ si = 0
  /\ spc = "loop"
  /\ sret = Nil
  /\ sruns = [i \in 0..2 |-> 0]
  /\ sfail = -1

\* the context handed to Start is cancelled or its deadline passes: the
\* contexts derived from it are done with the same error
OuterDone(kind) ==
  /\ outerCtx = "live"
  /\ outerCtx' = kind
  /\ inCtx' = ParentDone(inCtx, kind)
  /\ ctxErr' = ParentDone(ctxErr, kind)
  /\ UNCHANGED <<g, cancelOnExit, member, errs, exited, cause, exitTimeout,
                 iter, gpc, gret, gpath, first, timerArms, stuckAtFire, earlyNil>>
  /\ UNCHANGED <<startPc, startSig, startErr, hasStop, readyClosed, goPc, stopPc, stopRet>>
  /\ UNCHANGED <<seqVars, onceVars, auxVars>>

\* member 0 of the Sequence, the readiness probe, returns nil
ProbeReady ==
  /\ si = 0
  /\ SeqMemberNil
  /\ UNCHANGED seqEnv

\* the readiness probe returns a non-nil error
ProbeFails ==
  /\ si = 0
  /\ SeqMemberErr(InnerErr("probe"))
  /\ UNCHANGED seqEnv

\* the readiness probe sees its context done and returns an error, as Poller does
ProbeCancelled ==
  /\ si = 0
  /\ ctxErr # "live"
  /\ SeqMemberErr(Errorf("run.Poller cancelled", {}, <<>>, <<InnerErr("probe")>>))
  /\ UNCHANGED seqEnv

\* mutant: the publish step does not return after its send and sends again
Publish_Repeats ==
  /\ si = 1
  /\ spc = "inRun"
  /\ startPc = "waitReady"
  /\ ~readyClosed
  /\ startSig' = CtxErrValue(ctxErr)
  /\ startPc' = "gotReady"
  /\ UNCHANGED <<outerCtx, startErr, hasStop, readyClosed, goPc, stopPc, stopRet>>
  /\ UNCHANGED <<groupVars, seqVars, onceVars, auxVars>>

\* member 1: readych <- ctx.Err(); return nil.  readych is unbuffered: the
\* send completes with the receive of Start, which is waiting in <-readych
Publish ==
  /\ si = 1
  /\ startPc = "waitReady"
  /\ ~readyClosed
  /\ SeqMemberNil
  /\ startSig' = CtxErrValue(ctxErr)
  /\ startPc' = "gotReady"
  /\ UNCHANGED <<outerCtx, startErr, hasStop, readyClosed, goPc, stopPc, stopRet>>
  /\ UNCHANGED <<groupVars, onceVars, auxVars>>

\* mutant: Idle returns nil without waiting for ctx.Done()
IdleReturns_Eager ==
  /\ si = 2
  /\ SeqMemberNil
  /\ UNCHANGED seqEnv

\* member 2, Idle: <-ctx.Done(); return nil
IdleReturns ==
  /\ si = 2
  /\ ctxErr # "live"
  /\ SeqMemberNil
  /\ UNCHANGED seqEnv

\* r.Run(ctx) of the member "ready" is Sequence.Run: it returns what that returned
ReadyMemberReturns ==
  /\ spc = "returned"
  /\ member["ready"].pc = "running"
  /\ member' = [member EXCEPT !["ready"] = [pc |-> "returned", out |-> sret, pan |-> NoPanic]]
  /\ earlyNil' = IF sret = Nil /\ member["runner"].pc = "running"
                 THEN earlyNil \cup {"ready"} ELSE earlyNil
  /\ UNCHANGED <<g, cancelOnExit, inCtx, ctxErr, errs, exited, cause, exitTimeout,
                 iter, gpc, gret, gpath, first, timerArms, stuckAtFire>>
  /\ UNCHANGED groupEnv

\* if err != nil after <-readych: cancel(), then wait in <-done;
\* otherwise return nil and the stop closure, and the deferred close(readych)
StartAfterReady ==
  /\ startPc = "gotReady"
  /\ IF startSig # Nil
     THEN /\ inCtx' = CancelCtx(inCtx)
          /\ ctxErr' = ParentDone(ctxErr, CancelCtx(inCtx))
          /\ startPc' = "waitDone"
          /\ UNCHANGED <<hasStop, readyClosed>>
     ELSE /\ startPc' = "returned"
          /\ hasStop' = TRUE
          /\ readyClosed' = TRUE
          /\ UNCHANGED <<inCtx, ctxErr>>
  /\ UNCHANGED <<g, cancelOnExit, member, errs, exited, cause, exitTimeout,
                 iter, gpc, gret, gpath, first, timerArms, stuckAtFire, earlyNil>>
  /\ UNCHANGED <<outerCtx, startSig, startErr, goPc, stopPc, stopRet>>
  /\ UNCHANGED <<seqVars, onceVars, auxVars>>

\* Go: res <- r.Run(ctx) meets the <-done of Start:
\* return fmt.Errorf("runner not ready: %w", <-done), nil; close(readych)
StartRecvDone ==
  /\ startPc = "waitDone"
  /\ goPc = "running"
  /\ gpc = "returned"
  /\ goPc' = "finished"
  /\ startErr' = NotReadyErr(gret)
  /\ startPc' = "returned"
  /\ readyClosed' = TRUE
  /\ UNCHANGED <<outerCtx, startSig, hasStop, stopPc, stopRet>>
  /\ UNCHANGED <<groupVars, seqVars, onceVars, auxVars>>

\* the k-th call of the stop closure: cancel(), then wait in <-done
StopCall(k) ==
  /\ startPc = "returned"
  /\ hasStop
  /\ stopPc[k] = "idle"
  /\ \A j \in 1..(k - 1) : stopPc[j] # "idle"
  /\ stopPc' = [stopPc EXCEPT ![k] = "waitDone"]
  /\ inCtx' = CancelCtx(inCtx)
  /\ ctxErr' = ParentDone(ctxErr, CancelCtx(inCtx))
  /\ UNCHANGED <<g, cancelOnExit, member, errs, exited, cause, exitTimeout,
                 iter, gpc, gret, gpath, first, timerArms, stuckAtFire, earlyNil>>
  /\ UNCHANGED <<outerCtx, startPc, startSig, startErr, hasStop, readyClosed, goPc, stopRet>>
  /\ UNCHANGED <<seqVars, onceVars, auxVars>>

\* mutant: stop does not block in <-done until the Group has returned
StopRecvDone_NoWait(k) ==
  /\ stopPc[k] = "waitDone"
  /\ goPc = "running"
  /\ goPc' = "finished"
  /\ stopRet' = [stopRet EXCEPT ![k] = StopResult(gret)]
  /\ stopPc' = [stopPc EXCEPT ![k] = "returned"]
  /\ UNCHANGED <<outerCtx, startPc, startSig, startErr, hasStop, readyClosed>>
  /\ UNCHANGED <<groupVars, seqVars, onceVars, auxVars>>

\* Go: res <- r.Run(ctx) meets the <-done of a call of stop
StopRecvDone(k) ==
  /\ stopPc[k] = "waitDone"
  /\ goPc = "running"
  /\ gpc = "returned"
  /\ goPc' = "finished"
  /\ stopRet' = [stopRet EXCEPT ![k] = StopResult(gret)]
  /\ stopPc' = [stopPc EXCEPT ![k] = "returned"]
  /\ UNCHANGED <<outerCtx, startPc, startSig, startErr, hasStop, readyClosed>>
  /\ UNCHANGED <<groupVars, seqVars, onceVars, auxVars>>

\* the steps of the runner handed to Start
RunnerStep ==
  \/ MemberReturnNil("runner")
  \/ MemberReturnErr("runner")
  \/ MemberReturnCtxErr("runner")
  \/ MemberPanic("runner", PanicVal("eek"))

\* the steps of the Sequence that is the member "ready"
ReadyStep ==
  \/ SeqCall /\ UNCHANGED seqEnv
  \/ ProbeReady
  \/ ProbeFails
  \/ ProbeCancelled
  \/ Publish
  \/ IdleReturns
  \/ SeqReturn /\ UNCHANGED seqEnv
  \/ ReadyMemberReturns

NextStart ==
  \/ \E kind \in {"Canceled", "DeadlineExceeded"} : OuterDone(kind)
  \/ RunnerStep
  \/ ReadyStep
  \/ \E m \in ReadyMembers : MemberSend(m)
  \/ GroupRecv
  \/ GroupTimeout
  \/ GroupReturn
  \/ StartAfterReady
  \/ StartRecvDone
  \/ \E k \in StopCalls : StopCall(k)
  \/ \E k \in StopCalls : StopRecvDone(k)

(***************************************************************************)
(* Go                                                                      *)
(*                                                                         *)
(* MaxGoCalls calls of Go that share the channel res; the receiver takes   *)
(* every value offered, so a send completes as soon as it is reached.      *)
(***************************************************************************)
MaxGoCalls == 3

GoCalls == 1..MaxGoCalls

goEnv == <<groupVars, seqVars, onceVars, startVars, killVars>>

\* mutant: the recovered error value is printed with %v instead of wrapped with %w
GoRecover_Formats(r) ==
  Errorf("run.Go recover", {r.val}, <<>>, <<>>)

\* the deferred recover of Go: the error it sends for panic r
GoRecover(r) ==
  IF r.isErr
  THEN Errorf("run.Go recover", {}, <<>>, <<r.err>>)
  ELSE Errorf("run.Go recover", {r.val}, <<>>, <<>>)

InitGo ==
  /\ gorPc = [i \in GoCalls |-> "idle"]
  /\ gorVal = [i \in GoCalls |-> Nil]
  /\ gorPan = [i \in GoCalls |-> NoPanic]
  /\ gorRet = [i \in GoCalls |-> <<>>]
  /\ res = <<>>

GoIdle ==
  /\ gorPc = <<>>
  /\ gorVal = <<>>
  /\ gorPan = <<>>
  /\ gorRet = <<>>
  /\ res = <<>>

\* Go(ctx, r, res): the goroutine is started and enters r.Run(ctx)
GoCall(i) ==
  /\ gorPc[i] = "idle"
  /\ gorPc' = [gorPc EXCEPT ![i] = "inRun"]
  /\ UNCHANGED <<gorVal, gorPan, gorRet, res>>

\* r.Run(ctx) returns e: the operand of res <- r.Run(ctx) is evaluated
GoRunReturns(i, e) ==
  /\ gorPc[i] = "inRun"
  /\ gorVal' = [gorVal EXCEPT ![i] = e]
  /\ gorRet' = [gorRet EXCEPT ![i] = <<e>>]
  /\ gorPc' = [gorPc EXCEPT ![i] = "sending"]
  /\ UNCHANGED <<gorPan, res>>

\* r.Run(ctx) panics with r: the deferred function recovers and reaches its send
GoRunPanics(i, r) ==
  /\ gorPc[i] = "inRun"
  /\ gorPan' = [gorPan EXCEPT ![i] = r]
  /\ IF Recovered(r)
     THEN /\ gorVal' = [gorVal EXCEPT ![i] = GoRecover(r)]
          /\ gorPc' = [gorPc EXCEPT ![i] = "sending"]
     ELSE /\ gorPc' = [gorPc EXCEPT ![i] = "crashed"]
          /\ UNCHANGED gorVal
  /\ UNCHANGED <<gorRet, res>>

\* the send on res completes; after a normal return the deferred function
\* finds recover() nil and sends nothing more
GoSend(i) ==
  /\ gorPc[i] = "sending"
  /\ res' = Append(res, [from |-> i, val |-> gorVal[i]])
  /\ gorPc' = [gorPc EXCEPT ![i] = "done"]
  /\ UNCHANGED <<gorVal, gorPan, gorRet>>

NextGo ==
  \/ \E i \in GoCalls : GoCall(i) /\ UNCHANGED goEnv
  \/ \E i \in GoCalls : \E e \in {Nil, InnerErr("r")} : GoRunReturns(i, e) /\ UNCHANGED goEnv
  \/ \E i \in GoCalls : \E r \in {PanicErr(InnerErr("r")), PanicVal("eek")} :
        GoRunPanics(i, r) /\ UNCHANGED goEnv
  \/ \E i \in GoCalls : GoSend(i) /\ UNCHANGED goEnv

(***************************************************************************)
(* onexit: Killer and the helper script onexit.sh                          *)
(*                                                                         *)
(* Killer writes one record per operation to a pipe, "<op>:<data>\n"; the  *)
(* helper reads the pipe line by line.  A text is modelled by the lines it *)
(* holds, and a line by what the helper's `case` sees in it: pre is the    *)
(* operation prefix the line starts with ("" if none), text and num what   *)
(* follows it.                                                             *)
(***************************************************************************)
MaxOnExit == 2

MaxCancelCalls == 2

MaxKill == 1

killEnv == <<groupVars, seqVars, onceVars, startVars, goVars>>

Plain(t) == [pre |-> "", text |-> t, num |-> -1]

\* the line "cancel:<i>"
CancelLine(i) == [pre |-> "cancel", text |-> "", num |-> i]

\* the line "exit:<t>"
ExitLine(t) == [pre |-> "exit", text |-> t, num |-> -1]

\* the empty string
Empty == Plain("")

\* the commands handed to OnExit: one line, two lines, and two lines of which
\* the second reads like a record of the protocol
Commands ==
  { <<Plain("echo a")>>,
    <<Plain("echo b")>>,
    <<Plain("echo a"), Plain("echo b")>>,
    <<Plain("echo a"), CancelLine(0)>>,
    <<Plain("echo a"), ExitLine("echo x")>> }

\* send: fmt.Fprintf(k.w, "%s:%v\n", op, data) for a text of several lines:
\* the first line carries the prefix, the others are written as they are
Send(op, data) ==
  <<[pre |-> op, text |-> "", num |-> -1, rest |-> <<data[1]>>, origin |-> -1]>> \o
  [i \in 1..(Len(data) - 1) |->
     [pre |-> data[i + 1].pre, text |-> data[i + 1].text, num |-> data[i + 1].num,
      rest |-> <<>>, origin |-> -1]]

\* history: the first line of the record of a queue call carries the
\* sequence number the call drew
Tagged(lines, seq) == [lines EXCEPT ![1].origin = seq]

\* send(opCancel, seq): "cancel:<seq>\n"
SendCancel(seq) ==
  <<[pre |-> "cancel", text |-> "", num |-> seq, rest |-> <<>>, origin |-> -1]>>

InitKiller ==
  /\ kseq = -1
  /\ kpipe = <<>>
  /\ kClosed = FALSE
  /\ hcmds = <<>>
  /\ hpc = "reading"
  /\ hnext = 0
  /\ hran = <<>>
  /\ hindex = <<>>
  /\ kqueued = <<>>
  /\ dseq = -1
  /\ dpipe = <<>>
  /\ kkills = <<>>

KillIdle ==
  /\ kseq = -1
  /\ kpipe = <<>>
  /\ kClosed = FALSE
  /\ hcmds = <<>>
  /\ hpc = "idle"
  /\ hnext = 0
  /\ hran = <<>>
  /\ hindex = <<>>
  /\ kqueued = <<>>
  /\ dseq = -1
  /\ dpipe = <<>>
  /\ kkills = <<>>

\* Killer.queue under k.mu: seq := k.seq.Add(1); send(opExit, command).
\* Once w is closed the write fails and no cancel function is returned.
OnExit(command) ==
  /\ kseq + 1 < MaxOnExit
  /\ kseq' = kseq + 1
  /\ IF kClosed
     THEN UNCHANGED <<kpipe, kqueued>>
     ELSE /\ kpipe' = kpipe \o Tagged(Send("exit", command), kseq + 1)
          /\ kqueued' = Append(kqueued, [seq |-> kseq + 1, cmd |-> command,
                                         cancelled |-> FALSE, calls |-> 0])
  /\ UNCHANGED <<kClosed, hcmds, hpc, hnext, hran, hindex>>

\* the cancel function of the j-th queued command: dequeue(seq) = send(opCancel, seq)
CancelCall(j) ==
  /\ j \in DOMAIN kqueued
  /\ kqueued[j].calls < MaxCancelCalls
  /\ IF kClosed
     THEN /\ kqueued' = [kqueued EXCEPT ![j].calls = @ + 1]
          /\ UNCHANGED kpipe
     ELSE /\ kpipe' = kpipe \o SendCancel(kqueued[j].seq)
          /\ kqueued' = [kqueued EXCEPT ![j].calls = @ + 1, ![j].cancelled = TRUE]
  /\ UNCHANGED <<kseq, kClosed, hcmds, hpc, hnext, hran, hindex>>

\* Killer.Close: k.w.Close()
Close ==
  /\ ~kClosed
  /\ kClosed' = TRUE
  /\ UNCHANGED <<kseq, kpipe, hcmds, hpc, hnext, hran, hindex, kqueued>>

\* the highest index of the array, -1 when it is empty
LastIndex(a) == IF DOMAIN a = {} THEN -1
                ELSE CHOOSE i \in DOMAIN a : \A j \in DOMAIN a : j <= i

\* cmds+=("$command"): the element after the highest index
ArrayAppend(a, v) ==
  [i \in DOMAIN a \cup {LastIndex(a) + 1} |-> IF i \in DOMAIN a THEN a[i] ELSE v]

\* cmds[$i]="": the element is emptied, or created empty if it is not set
ArrayClear(a, i) ==
  [j \in DOMAIN a \cup {i} |-> IF j = i THEN <<Empty>> ELSE a[j]]

\* what follows the prefix of a line: ${cmd#exit:}
AfterPrefix(line) ==
  IF line.rest # <<>> THEN line.rest ELSE <<Plain(line.text)>>

\* one turn of `while read -r cmd`: the case on the line read
HelperRead ==
  /\ hpc = "reading"
  /\ kpipe # <<>>
  /\ LET line == Head(kpipe)
     IN hcmds' = CASE line.pre = "exit" -> ArrayAppend(hcmds, AfterPrefix(line))
                   [] line.pre = "cancel" -> ArrayClear(hcmds, line.num)
                   [] OTHER -> hcmds
  /\ hindex' = LET line == Head(kpipe)
               IN IF line.pre = "exit" /\ line.origin >= 0
                  THEN [q \in DOMAIN hindex \cup {line.origin} |->
                          IF q = line.origin THEN LastIndex(hcmds) + 1 ELSE hindex[q]]
                  ELSE hindex
  /\ kpipe' = Tail(kpipe)
  /\ UNCHANGED <<kseq, kClosed, hpc, hnext, hran, kqueued>>

\* read fails at end of input: every line is read and w is closed
HelperEOF ==
  /\ hpc = "reading"
  /\ kpipe = <<>>
  /\ kClosed
  /\ hpc' = "running"
  /\ UNCHANGED <<kseq, kpipe, kClosed, hcmds, hnext, hran, hindex, kqueued>>

\* one turn of `for cmd in "${cmds[@]}"`: eval "$cmd" unless it is empty
HelperRun ==
  /\ hpc = "running"
  /\ hnext <= LastIndex(hcmds)
  /\ hran' = IF hnext \in DOMAIN hcmds /\ hcmds[hnext] # <<Empty>>
             THEN Append(hran, [seq |-> hnext, cmd |-> hcmds[hnext]])
             ELSE hran
  /\ hnext' = hnext + 1
  /\ UNCHANGED <<kseq, kpipe, kClosed, hcmds, hpc, hindex, kqueued>>

\* the loop is over: the helper exits
HelperExit ==
  /\ hpc = "running"
  /\ hnext > LastIndex(hcmds)
  /\ hpc' = "done"
  /\ UNCHANGED <<kseq, kpipe, kClosed, hcmds, hnext, hran, hindex, kqueued>>

\* syscall.SIGINT
SIGINT == 2

SIGKILL == 9

\* shellescape.Quote(desc): a word of safe characters is left as it is, any
\* other text is put between single quotes
Quote(desc) == IF desc = "my p" THEN "'my p'" ELSE desc

\* fmt.Sprintf("echo killing %s; kill -%d %d", desc, signal, pid)
KillText(desc, signal, pid) ==
  CASE desc = "p" /\ signal = SIGINT /\ pid = 1 -> "echo killing p; kill -2 1"
    [] desc = "p" /\ signal = SIGKILL /\ pid = 1 -> "echo killing p; kill -9 1"
    [] desc = "'my p'" /\ signal = SIGINT /\ pid = 1 -> "echo killing 'my p'; kill -2 1"
    [] desc = "'my p'" /\ signal = SIGKILL /\ pid = 1 -> "echo killing 'my p'; kill -9 1"

\* the command Killer.Kill builds: the first of sig, SIGINT if there is none
KillCommand(desc, pid, sig) ==
  LET signal == IF Len(sig) > 0 THEN sig[1] ELSE SIGINT
  IN <<Plain(KillText(Quote(desc), signal, pid))>>

\* k.Kill(desc, pid, sig...): return OnExitF(...), the function of the package,
\* which is DefaultKiller.OnExit: seq := DefaultKiller.seq.Add(1) and the
\* record goes to the pipe of DefaultKiller.  cancel is dequeue(seq) on
\* DefaultKiller.  Nothing of k is read or written.
Kill(desc, pid, sig) ==
  /\ Len(kkills) < MaxKill
  /\ dseq' = dseq + 1
  /\ dpipe' = dpipe \o Send("exit", KillCommand(desc, pid, sig))
  /\ kkills' = Append(kkills, [seq |-> dseq + 1, cmd |-> KillCommand(desc, pid, sig),
                                cancelled |-> FALSE, calls |-> 0])
  /\ UNCHANGED ownVars

\* the cancel function k.Kill returned: DefaultKiller.dequeue(seq)
KillCancel(j) ==
  /\ j \in DOMAIN kkills
  /\ kkills[j].calls < MaxCancelCalls
  /\ dpipe' = dpipe \o SendCancel(kkills[j].seq)
  /\ kkills' = [kkills EXCEPT ![j].calls = @ + 1, ![j].cancelled = TRUE]
  /\ UNCHANGED <<ownVars, dseq>>

NextKiller ==
  \/ \E command \in Commands : OnExit(command) /\ UNCHANGED <<killEnv, defVars>>
  \/ \E j \in 1..MaxOnExit : CancelCall(j) /\ UNCHANGED <<killEnv, defVars>>
  \/ Close /\ UNCHANGED <<killEnv, defVars>>
  \/ HelperRead /\ UNCHANGED <<killEnv, defVars>>
  \/ HelperEOF /\ UNCHANGED <<killEnv, defVars>>
  \/ HelperRun /\ UNCHANGED <<killEnv, defVars>>
  \/ HelperExit /\ UNCHANGED <<killEnv, defVars>>
  \/ \E desc \in {"p", "my p"} : \E sig \in {<<>>, <<SIGKILL>>} :
        Kill(desc, 1, sig) /\ UNCHANGED killEnv
  \/ \E j \in 1..MaxKill : KillCancel(j) /\ UNCHANGED killEnv

AuxIdle == GoIdle /\ KillIdle

(***************************************************************************)
(* Specifications                                                          *)
(***************************************************************************)
Init == InitGroup /\ SeqIdle /\ OnceIdle /\ StartIdle /\ AuxIdle

Next == NextGroup

Spec == Init /\ [][Next]_vars

\* the Go scheduler runs every goroutine that can take a step: the loop of
\* Group.run and the sends of members whose Run has ended; an armed timer
\* fires.  Nothing makes a member's Run return.
FairSpec ==
  /\ Spec
  /\ WF_vars(GroupRecv)
  /\ WF_vars(GroupTimeout)
  /\ WF_vars(GroupReturn)
  /\ \A m \in Names : WF_vars(MemberSend(m))

InitSeqSpec == GroupIdle /\ InitSeq /\ OnceIdle /\ StartIdle /\ AuxIdle

SpecSeq == InitSeqSpec /\ [][NextSeq]_vars

InitOnceSpec == GroupIdle /\ SeqIdle /\ InitOnce /\ StartIdle /\ AuxIdle

SpecOnce == InitOnceSpec /\ [][NextOnce]_vars

InitGoSpec == GroupIdle /\ SeqIdle /\ OnceIdle /\ StartIdle /\ InitGo /\ KillIdle

InitKillerSpec == GroupIdle /\ SeqIdle /\ OnceIdle /\ StartIdle /\ GoIdle /\ InitKiller

SpecKiller == InitKillerSpec /\ [][NextKiller]_vars

SpecGo == InitGoSpec /\ [][NextGo]_vars

InitStartSpec == InitStart /\ OnceIdle /\ AuxIdle

SpecStart == InitStartSpec /\ [][NextStart]_vars

\* the Go scheduler runs every goroutine that can take a step, an armed timer
\* fires, and runner and probe return once their context is cancelled.
\* Nothing makes the owner of the context cancel it, the probe succeed or
\* the caller call stop.
FairSpecStart ==
  /\ SpecStart
  /\ WF_vars(GroupRecv)
  /\ WF_vars(GroupTimeout)
  /\ WF_vars(GroupReturn)
  /\ \A m \in ReadyMembers : WF_vars(MemberSend(m))
  /\ WF_vars(SeqCall /\ UNCHANGED seqEnv)
  /\ WF_vars(SeqReturn /\ UNCHANGED seqEnv)
  /\ WF_vars(Publish)
  /\ WF_vars(IdleReturns)
  /\ WF_vars(ReadyMemberReturns)
  /\ WF_vars(StartAfterReady)
  /\ WF_vars(StartRecvDone)
  /\ \A k \in StopCalls : WF_vars(StopRecvDone(k))
  /\ WF_vars(ctxErr # "live" /\ RunnerStep)
  /\ WF_vars(ctxErr # "live" /\ (ProbeReady \/ ProbeCancelled))

(***************************************************************************)
(* Properties of Group.run, checked under Spec                             *)
(***************************************************************************)
\* err carries the payload of panic r: wrapped when it is an error, printed otherwise
PayloadIn(err, r) == IF r.isErr THEN Is(err, r.err) ELSE Mentions(err, r.val)

\* the first entry the loop consumed came from member m
FirstIs(m) == first # <<>> /\ first[1].runner = m

\* what Group.run returns when the cause is c: the cause, alone or inside the
\* timeout error, or nil when every member reported under a Canceled parent
ReturnsCause(c) ==
  gpc = "returned" =>
    IF gpath = "all" /\ inCtx = "Canceled" THEN gret = Nil
    ELSE gret # Nil /\ Is(gret, c)

\* C1 as stated, for the member whose exit the loop consumed first: cancel-on-exit,
\* the member returned a non-nil error, so the siblings' context is cancelled
\* and the error Group.Run returned wraps the member's error.
C1_Original ==
  (cancelOnExit /\ gpc = "returned") =>
    \A m \in g :
      (FirstIs(m) /\ member[m].pan = NoPanic /\ member[m].out # Nil) =>
        (ctxErr # "live" /\ Is(gret, member[m].out))

\* C1 (amended): with cancel-on-exit, when the first entry the loop consumes is
\* a member's non-nil error, the derived context is cancelled, the cause wraps
\* that member's error under the member's name, and Group.Run returns an error
\* wrapping it, except that it returns nil when every member has reported and
\* the incoming context's error is context.Canceled.
C1_FirstErrorIsCause ==
  cancelOnExit =>
    \A m \in g :
      (FirstIs(m) /\ member[m].pan = NoPanic /\ member[m].out # Nil) =>
        /\ ctxErr # "live"
        /\ Is(cause, member[m].out)
        /\ Mentions(cause, m)
        /\ ReturnsCause(member[m].out)

C1_Witness ==
  /\ cancelOnExit
  /\ gpc = "returned"
  /\ inCtx = "live"
  /\ Cardinality(g) >= 2
  /\ \E m \in g :
       /\ FirstIs(m)
       /\ member[m].out = InnerErr(m)
       /\ Is(gret, InnerErr(m))
       /\ \E o \in g \ {m} : member[o].out = Canceled

\* C2 as stated, for the member whose exit the loop consumed first: cancel-on-exit,
\* the member returned nil while a sibling had not returned, so Group.Run
\* returns a non-nil error wrapping ErrExited and naming the member, and the
\* siblings' context is cancelled.
C2_Original ==
  (cancelOnExit /\ gpc = "returned") =>
    \A m \in earlyNil :
      FirstIs(m) =>
        /\ gret # Nil
        /\ Is(gret, ErrExited)
        /\ Mentions(gret, m)
        /\ ctxErr # "live"

\* C2 (amended): with cancel-on-exit, when the first entry the loop consumes is
\* a member's nil exit, the cause is ErrExited wrapped under that member's name
\* and the derived context is cancelled; Group.Run returns an error wrapping
\* ErrExited and naming the member, except that it returns nil when every
\* member has reported and the incoming context's error is context.Canceled.
C2_FirstNilIsExited ==
  cancelOnExit =>
    \A m \in g :
      (FirstIs(m) /\ first[1].err = Nil) =>
        /\ cause = Errorf("run.Group", {m}, <<>>, <<ErrExited>>)
        /\ ctxErr # "live"
        /\ ReturnsCause(ErrExited)
        /\ (gpc = "returned" /\ gret # Nil) => Mentions(gret, m)

C2_Witness ==
  /\ cancelOnExit
  /\ gpc = "returned"
  /\ inCtx = "live"
  /\ \E m \in earlyNil :
       /\ FirstIs(m)
       /\ Is(gret, ErrExited)
       /\ Mentions(gret, m)
       /\ \E o \in g \ {m} : member[o].out = Canceled

\* the entries of members of the Group that the loop has consumed with a
\* non-nil error: the exits that may have become the cause
RealFailures == {m \in g : exited[m] /\ member[m].out # Nil}

\* C3 as stated: without cancel-on-exit a nil exit records no cause and cancels
\* nobody; only a member's non-nil error (or recovered panic) records a cause
\* and cancels the siblings, and that error is what the Group returns.
C3_Original ==
  ~cancelOnExit =>
    /\ cause # Nil =>
         \E m \in RealFailures :
           cause = Errorf("run.Group", {m}, <<>>, <<member[m].out>>)
    /\ (gpc = "running" /\ inCtx = "live" /\ ctxErr # "live") => cause # Nil
    /\ (gpc = "returned" /\ cause # Nil) => (gret # Nil /\ Is(gret, cause))

\* C3 (amended): without cancel-on-exit a nil exit records no cause and cancels
\* nobody; only a member's non-nil error (or recovered panic) records a cause
\* and cancels the siblings, and Group.run returns that cause (alone or inside
\* the timeout error), except that it returns nil when every member has
\* reported and the incoming context's error is context.Canceled.
C3_WithoutCancelOnlyRealErrors ==
  ~cancelOnExit =>
    /\ cause # Nil =>
         \E m \in RealFailures :
           cause = Errorf("run.Group", {m}, <<>>, <<member[m].out>>)
    /\ (gpc = "running" /\ inCtx = "live" /\ ctxErr # "live") => cause # Nil
    /\ ~Is(cause, ErrExited)
    /\ cause # Nil => ReturnsCause(cause)
    /\ (gpc = "returned" /\ cause = Nil) => gret = Nil

C3_Witness ==
  /\ ~cancelOnExit
  /\ gpc = "returned"
  /\ inCtx = "live"
  /\ \E m \in g :
       /\ FirstIs(m)
       /\ first[1].err = Nil
       /\ \E o \in g \ {m} :
            /\ member[o].out = InnerErr(o)
            /\ gret = Errorf("run.Group", {o}, <<>>, <<InnerErr(o)>>)

\* C4 as stated: on the timeout path the returned error names exactly the
\* members still running when the timer fired (none that had returned, all
\* that had not) and wraps ErrTimeout and the recorded cause.
C4_Original ==
  gpath = "timeout" =>
    /\ gret.args = stuckAtFire
    /\ Is(gret, ErrTimeout)
    /\ cause # Nil /\ Is(gret, cause)

\* C4 (amended): on the timeout path the returned error names exactly the
\* members whose exit the loop has not consumed: every member still running
\* is named, and so is a member that has returned but whose entry was not
\* consumed before the timer branch was taken; the error wraps ErrTimeout and
\* the recorded cause.
C4_TimeoutNamesUnconsumed ==
  gpath = "timeout" =>
    /\ stuckAtFire \subseteq gret.args
    /\ \A m \in g : m \in gret.args <=> ~exited[m]
    /\ \A m \in g \ gret.args : member[m].pc = "sent"
    /\ gret.args # {}
    /\ Is(gret, ErrTimeout)
    /\ cause # Nil /\ Is(gret, cause)

C4_Witness ==
  /\ gpath = "timeout"
  /\ Cardinality(g) >= 2
  /\ gret.args = stuckAtFire
  /\ stuckAtFire # {}
  /\ Is(gret, ErrTimeout)
  /\ \E m \in g \ gret.args : Is(gret, InnerErr(m))

\* C5: once the context given to the members is cancelled, by a recorded
\* cause or by the parent context, Group.Run eventually returns (an armed
\* timer fires: FairSpec).
C5_ShutdownTerminates == (gpc = "running" /\ ctxErr # "live") ~> (gpc = "returned")

\* C6 as stated, for the member whose exit the loop consumed first: the panic
\* does not end the process, it is reported as the member's error, becomes
\* the cause, and Group.Run returns an error whose chain holds the payload.
C6_Original ==
  \A m \in g :
    member[m].pan # NoPanic =>
      /\ member[m].pc # "crashed"
      /\ (gpc = "returned" /\ FirstIs(m)) => PayloadIn(gret, member[m].pan)

\* C6 (amended): a panic of a member never leaves its goroutine; it is
\* reported as that member's non-nil error (wrapping the panic value when it
\* is an error, printing it otherwise); when that entry is the first the loop
\* consumes it becomes the cause and the derived context is cancelled, and
\* Group.Run returns an error holding the payload, except that it returns nil
\* when every member has reported and the incoming context's error is
\* context.Canceled.
C6_PanicIsMemberError ==
  \A m \in g :
    member[m].pan # NoPanic =>
      /\ member[m].pc \in {"recovered", "sent"}
      /\ member[m].out # Nil
      /\ PayloadIn(member[m].out, member[m].pan)
      /\ member[m].pan.isErr => member[m].out.subs = <<member[m].pan.err>>
      /\ FirstIs(m) =>
           /\ cause = Errorf("run.Group", {m}, <<>>, <<member[m].out>>)
           /\ ctxErr # "live"
           /\ (gpc = "returned" /\ ~(gpath = "all" /\ inCtx = "Canceled")) =>
                PayloadIn(gret, member[m].pan)
           /\ (gpc = "returned" /\ gpath = "all" /\ inCtx = "Canceled") => gret = Nil

C6_Witness ==
  /\ gpc = "returned"
  /\ gpath = "all"
  /\ inCtx = "live"
  /\ Cardinality(g) >= 2
  /\ \E m \in g :
       /\ FirstIs(m)
       /\ member[m].pan = PanicErr(InnerErr(m))
       /\ Is(gret, InnerErr(m))
       /\ \E o \in g \ {m} : member[o].pan = PanicVal("eek")

\* every member exited with a nil error and the policy made no nil exit a cause
AllExitedCleanly ==
  /\ \A m \in g : member[m].out = Nil
  /\ cancelOnExit => g = {}

\* C16 as stated: when all members have reported before the timer fires,
\* Group.Run returns the recorded cause, and it returns nil only if every
\* member exited with nil and the policy turned no nil exit into a cause.
C16_Original ==
  gpath = "all" =>
    /\ gret = cause
    /\ gret = Nil => AllExitedCleanly

\* C16 (amended): when all members have reported before the timer fires,
\* Group.run returns the recorded cause unless the incoming context's error
\* is context.Canceled, in which case it returns nil whatever the cause; the
\* cause is nil exactly when every member exited with nil and the policy
\* turned no nil exit into a cause, so nil is returned only then or under a
\* Canceled incoming context.
C16_AllReportedReturnsCause ==
  gpath = "all" =>
    /\ inCtx # "Canceled" => gret = cause
    /\ inCtx = "Canceled" => gret = Nil
    /\ cause = Nil <=> AllExitedCleanly
    /\ gret = Nil => (AllExitedCleanly \/ inCtx = "Canceled")

C16_Witness ==
  /\ gpath = "all"
  /\ Cardinality(g) >= 2
  /\ inCtx = "DeadlineExceeded"
  /\ cause # Nil
  /\ gret = cause

\* the entries of member m: those buffered in errs and the one the loop consumed
Buffered(m) == {k \in DOMAIN errs : errs[k].runner = m}

Entries(m) == Cardinality(Buffered(m)) + (IF exited[m] THEN 1 ELSE 0)

\* Run of member m has ended, by return or by a recovered panic, and its
\* goroutine is at the send
AtSend(m) == m \in g /\ member[m].pc \in {"returned", "recovered"}

\* C18: a member has sent no entry before its Run has ended and exactly one
\* once it has passed the send; errs never holds more entries than there are
\* members, so a member at the send finds room; and every member whose Run
\* has ended gets its entry sent, also after the loop has returned on timeout
\* (the scheduler runs the goroutine: FairSpec).
C18_MembersReportOnce ==
  /\ [](\A m \in g : Entries(m) = (IF member[m].pc = "sent" THEN 1 ELSE 0))
  /\ [](Len(errs) <= Cardinality(g))
  /\ [](\A m \in g : member[m].pc # "crashed")
  /\ \A m \in Names : (AtSend(m) ~> (member[m].pc = "sent"))

C18_Witness ==
  /\ gpath = "timeout"
  /\ Cardinality(g) >= 2
  /\ \E m \in g :
       /\ m \in stuckAtFire
       /\ member[m].pc = "sent"
       /\ Buffered(m) # {}

\* an entry that can become the cause: a non-nil error, or any exit under
\* the cancel-on-exit policy
Qualifies(gerr) == gerr.err # Nil \/ cancelOnExit

\* the cause such an entry becomes
CauseOf(gerr) ==
  Errorf("run.Group", {gerr.runner}, <<>>,
         <<IF gerr.err # Nil THEN gerr.err ELSE ErrExited>>)

\* the step consumes an entry of errs
Consumes == gpc = "running" /\ iter' = iter + 1

\* C19: the cause is set by the first qualifying entry the loop consumes, to
\* that entry's error (or ErrExited) under its member's name; an entry that
\* does not qualify leaves it nil; once it is not nil no step changes it, and
\* a later entry, nil or not, only marks its member as exited.
C19_CauseSetOnce ==
  [][ /\ cause # Nil => cause' = cause
      /\ (cause = Nil /\ cause' # Nil) =>
            (Consumes /\ Qualifies(Head(errs)) /\ cause' = CauseOf(Head(errs)))
      /\ (cause = Nil /\ Consumes /\ Qualifies(Head(errs))) => cause' # Nil
      /\ Consumes => exited' = [exited EXCEPT ![Head(errs).runner] = TRUE]
      /\ ~Consumes => exited' = exited
    ]_vars

C19_Witness ==
  /\ gpc = "returned"
  /\ gpath = "all"
  /\ \E m, o \in g :
       /\ m # o
       /\ FirstIs(m)
       /\ first[1].err = InnerErr(m)
       /\ member[o].out = InnerErr(o)
       /\ exited[o]
       /\ cause = Errorf("run.Group", {m}, <<>>, <<InnerErr(m)>>)

\* a member is in its Run and can look at its context
SomeMemberRunning == \E m \in g : member[m].pc = "running"

\* C20 as stated: a member sees its context cancelled only after a cause has
\* been recorded.
C20_Original ==
  (ctxErr # "live" /\ SomeMemberRunning) => cause # Nil

\* C20 (amended): the Group itself cancels the members' context only after a
\* cause has been recorded, or by its deferred cancel when it returns after
\* every member has reported; a member can see its context done without a
\* recorded cause only because the context Group.Run was called with is done.
C20_CancelNeedsCauseOrParent ==
  /\ (ctxErr # "live" /\ SomeMemberRunning) => (cause # Nil \/ inCtx # "live")
  /\ (ctxErr # "live" /\ inCtx = "live") =>
       /\ ctxErr = "Canceled"
       /\ cause # Nil \/ (gpc = "returned" /\ gpath = "all")
  /\ (gpc = "running" /\ cause # Nil) => ctxErr # "live"

C20_Witness ==
  /\ gpc = "running"
  /\ inCtx = "live"
  /\ ctxErr = "Canceled"
  /\ cause # Nil
  /\ SomeMemberRunning

\* C21: the shutdown timer is armed only by the step of the loop that records
\* the cause, hence at most once in an invocation: an entry consumed after
\* the cause is set does not arm it again.
C21_TimerArmedOnce ==
  [][timerArms' # timerArms => (cause = Nil /\ cause' # Nil /\ timerArms' = 1)]_vars

\* C22: whichever way Group.run returns (every member reported, with or
\* without a cause; timeout; no members) the derived context is cancelled
\* once it has returned; if nothing else ended it, its error is Canceled.
C22_ContextCancelledOnReturn ==
  gpc = "returned" =>
    /\ ctxErr # "live"
    /\ inCtx = "live" => ctxErr = "Canceled"

C22_Witness ==
  /\ gpc = "returned"
  /\ gpath = "all"
  /\ g # {}
  /\ ~cancelOnExit
  /\ cause = Nil
  /\ inCtx = "live"
  /\ ctxErr = "Canceled"

\* C23: a Group without members, under either policy, launches no task,
\* records no cause, arms no timer, and what it returns is nil.
C23_EmptyGroupReturnsNil ==
  g = {} =>
    /\ \A m \in Names : member[m].pc = "none"
    /\ errs = <<>>
    /\ cause = Nil
    /\ exitTimeout = "nil" /\ timerArms = 0
    /\ gpc = "returned" => (gret = Nil /\ gpath = "all")

C23_Witness ==
  /\ g = {}
  /\ ~cancelOnExit
  /\ gpc = "returned"
  /\ gret = Nil
  /\ inCtx = "Canceled"

\* C24: when every member has reported, Group.run returns nil if the incoming
\* context's error is context.Canceled, whatever the cause, and the recorded
\* cause if the incoming context is not done or ended by its deadline; on the
\* timeout path it returns the timeout error whatever the incoming context.
C24_ParentCancelSuppressesCause ==
  /\ (gpath = "all" /\ inCtx = "Canceled") => gret = Nil
  /\ (gpath = "all" /\ inCtx \in {"live", "DeadlineExceeded"}) => gret = cause
  /\ gpath = "timeout" =>
       /\ gret # Nil
       /\ Is(gret, ErrTimeout)
       /\ Is(gret, cause)

C24_Witness ==
  /\ gpath = "all"
  /\ inCtx = "Canceled"
  /\ cause # Nil
  /\ gret = Nil
  /\ \E m \in g : member[m].out = InnerErr(m)

\* C25: the timer is never armed while the cause is nil, so Group.run returns
\* on the timeout path only with a cause recorded; the members the timeout
\* error names are never none and never include the member whose exit was
\* recorded as the cause.
C25_TimeoutNeedsCause ==
  /\ exitTimeout = "armed" => cause # Nil
  /\ gpath = "timeout" =>
       /\ cause # Nil
       /\ gret.args # {}
       /\ gret.args \subseteq g
       /\ gret.args \cap cause.args = {}
       /\ \E m \in g \ gret.args : cause.args = {m} /\ exited[m]

C25_Witness ==
  /\ gpath = "timeout"
  /\ inCtx = "live"
  /\ Cardinality(g) >= 2
  /\ Cardinality(gret.args) = 1
  /\ \E m \in g \ gret.args : cause = Errorf("run.Group", {m}, <<>>, <<ErrExited>>)

(***************************************************************************)
(* Properties of Sequence.Run, checked under SpecSeq                       *)
(***************************************************************************)
\* C7: when member i is the first to return a non-nil error, every member
\* before it has run exactly once, no member after it is ever run and
\* Sequence.Run returns an error wrapping member i's error; when no member
\* fails every member runs exactly once and nil is returned.
C7_SequenceShortCircuits ==
  /\ \A j \in 0..(slen - 1) : sruns[j] <= 1
  /\ sfail >= 0 => \A j \in (sfail + 1)..(slen - 1) : sruns[j] = 0
  /\ spc = "returned" =>
       IF sfail >= 0
       THEN /\ \A j \in 0..sfail : sruns[j] = 1
            /\ sret # Nil
            /\ sret.pos = <<sfail, slen - 1>>
            /\ \/ sret.subs = <<SeqErr(sfail)>>
               \/ ctxErr # "live" /\ sret.subs = <<CtxErrValue(ctxErr)>>
       ELSE /\ \A j \in 0..(slen - 1) : sruns[j] = 1
            /\ sret = Nil

C7_Witness ==
  /\ spc = "returned"
  /\ slen >= 3
  /\ sfail = 1
  /\ sruns[0] = 1 /\ sruns[1] = 1 /\ sruns[2] = 0
  /\ Is(sret, SeqErr(1))

(***************************************************************************)
(* Properties of Once, checked under SpecOnce                              *)
(***************************************************************************)
\* C8: the wrapped runner's Run is executed exactly once over any number of
\* invocations of the wrapper, sequential or concurrent: never twice, and
\* once as soon as an invocation has got past once.Do.
C8_OnceExecutesOnce ==
  /\ execCount <= 1
  /\ (\E c \in Callers : calls[c] > 0 \/ cpc[c] \in {"exec", "ret", "panicked"})
       => execCount = 1

C8_Witness ==
  /\ execCount = 1
  /\ \A c \in Callers : calls[c] = MaxCalls

NotReady ==
  /\ startPc = "waitReady"
  /\ \/ member["runner"].pc # "running"
     \/ sfail = 0
     \/ outerCtx # "live"

\* C10: whenever the runner returns before readiness, the readiness probe
\* returns a non-nil error or the supplied context is cancelled before
\* readiness, Start eventually returns a non-nil error and no stop closure
\* (runner and probe return once their context is cancelled: FairSpecStart).
C10_StartReturnsNotReady ==
  NotReady ~> (startPc = "returned" /\ startErr # Nil /\ ~hasStop)

\* the readiness probe has returned nil: the Sequence went on to its publish step
ProbeReturnedNil == si >= 1 /\ sfail = -1

\* the publish step has handed its signal to Start
Published == startPc \in {"gotReady", "waitDone", "returned"}

\* C11 as stated: once the probe has returned nil the published signal is nil
\* and Start returns a nil error and a stop closure; Start returns a nil error
\* only if the probe has returned nil.
C11_Original ==
  /\ (ProbeReturnedNil /\ Published) => startSig = Nil
  /\ (ProbeReturnedNil /\ startPc = "returned") => (startErr = Nil /\ hasStop)
  /\ (startPc = "returned" /\ startErr = Nil) => ProbeReturnedNil

\* C11 (amended): a signal is published only after the probe has returned nil,
\* and it is the error of the runner's context at that moment: nil when the
\* context is not done, the context's error otherwise.  Start returns a nil
\* error and a stop closure exactly when the signal is nil, and a non-nil
\* error and no stop closure when it is not; so Start never returns a nil
\* error unless the probe has returned nil.
C11_ReadySignalIsCtxErr ==
  /\ Published => ProbeReturnedNil
  /\ (Published /\ startSig # Nil) =>
       (ctxErr # "live" /\ startSig = CtxErrValue(ctxErr))
  /\ startPc = "returned" =>
       /\ startSig = Nil => (startErr = Nil /\ hasStop)
       /\ startSig # Nil => (startErr # Nil /\ ~hasStop)
  /\ (startPc = "returned" /\ startErr = Nil) => ProbeReturnedNil

C11_Witness ==
  /\ startPc = "returned"
  /\ ProbeReturnedNil
  /\ startSig = Nil
  /\ startErr = Nil
  /\ hasStop
  /\ member["runner"].pc = "running"

\* the runner failed after readiness: it returned its context's error while
\* the context handed to Start is not done, so the context was cancelled by
\* stop, and the loop of the Group consumed that entry
RunnerFailedAfterStop ==
  /\ hasStop
  /\ outerCtx = "live"
  /\ member["runner"].pan = NoPanic
  /\ member["runner"].out = Canceled
  /\ exited["runner"]

\* C12: when the runner returns a non-nil error after Start returned
\* successfully, the call of stop that returns gives a non-nil error wrapping
\* the runner's error.
C12_StopSurfacesFailure ==
  \A k \in StopCalls :
    (stopPc[k] = "returned" /\ RunnerFailedAfterStop) =>
      (stopRet[k] # Nil /\ Is(stopRet[k], member["runner"].out))

\* C13 as stated: a call of stop cancels the runner's context and has not
\* returned while the runner's Run has not returned.
C13_Original ==
  \A k \in StopCalls :
    /\ stopPc[k] # "idle" => ctxErr # "live"
    /\ stopPc[k] = "returned" => member["runner"].pc # "running"

\* C13 (amended): a call of stop cancels the runner's context and does not
\* return until the Group has returned: either the loop has consumed the
\* runner's exit (its Run has returned), or the shutdown timer fired first, and
\* then stop returns a non-nil error wrapping ErrTimeout that names the runner
\* as still running.
C13_StopWaitsForGroup ==
  \A k \in StopCalls :
    /\ stopPc[k] # "idle" => ctxErr # "live"
    /\ stopPc[k] = "returned" =>
         /\ gpc = "returned"
         /\ \/ exited["runner"] /\ member["runner"].pc = "sent"
            \/ /\ gpath = "timeout"
               /\ stopRet[k] # Nil
               /\ Is(stopRet[k], ErrTimeout)
               /\ Mentions(stopRet[k], "runner")

C13_Witness ==
  /\ stopPc[1] = "returned"
  /\ outerCtx = "live"
  /\ gpath = "all"
  /\ member["runner"].out = Canceled
  /\ member["runner"].pc = "sent"

\* Idle.Run, the last member of the ready Sequence, has been entered and has
\* not returned
InIdle == si = 2 /\ spc = "inRun"

\* Idle.Run has returned: the Sequence went past its last member
IdleReturned == si >= 3

\* C15: Idle.Run has not returned while its context is not done; it never
\* returns an error; and once its context is done, by cancellation or by
\* deadline, it returns nil (the scheduler runs it: FairSpecStart).
C15_IdleWaitsForCancel ==
  /\ [](IdleReturned => ctxErr # "live")
  /\ [](sfail # 2)
  /\ []((IdleReturned /\ spc = "returned") => sret = Nil)
  /\ ((InIdle /\ ctxErr # "live") ~> (IdleReturned /\ sfail = -1))

C15_Witness ==
  /\ IdleReturned
  /\ spc = "returned"
  /\ sret = Nil
  /\ ctxErr = "DeadlineExceeded"

\* the receives from done that have completed: the one of Start on the
\* not-ready path and those of the calls of stop
DoneReceives ==
  Cardinality({k \in StopCalls : stopPc[k] = "returned"}) +
  (IF startPc = "returned" /\ ~hasStop THEN 1 ELSE 0)

\* C26: the value the detached Group delivers on done is sent once and
\* received once, by Start on the not-ready path or by a call of stop; every
\* call of stop returns, the second included, so once stop has been called
\* the goroutine of Go gets past its send (the scheduler runs every goroutine
\* and the runner returns once cancelled: FairSpecStart).
C26_DoneReceivedOnce ==
  /\ [](DoneReceives = (IF goPc = "finished" THEN 1 ELSE 0))
  /\ [](goPc = "finished" => gpc = "returned")
  /\ \A k \in StopCalls : ((stopPc[k] = "waitDone") ~> (stopPc[k] = "returned"))
  /\ ((\E k \in StopCalls : stopPc[k] # "idle") ~> (goPc = "finished"))

\* the parts of C26 that do not concern a second call of stop
OneStopCallReceivesDone ==
  /\ [](DoneReceives = (IF goPc = "finished" THEN 1 ELSE 0))
  /\ [](goPc = "finished" => gpc = "returned")
  /\ ((\E k \in StopCalls : stopPc[k] # "idle") ~> (goPc = "finished"))

\* the publish step is entered and has its send on readych still to do
AtPublish == si = 1 /\ spc = "inRun"

\* C27: the publish step is run at most once, so it sends on readych at most
\* once; readych is closed only by Start returning, and whenever it is closed
\* the publish step has already completed its send: a send on the closed
\* channel cannot happen.
C27_NoSendAfterClose ==
  /\ sruns[1] <= 1
  /\ Published => (sruns[1] = 1 /\ si >= 2)
  /\ readyClosed => (startPc = "returned" /\ Published)
  /\ ~(AtPublish /\ readyClosed)

C27_Witness ==
  /\ readyClosed
  /\ startPc = "returned"
  /\ startErr # Nil
  /\ sruns[1] = 1
  /\ si = 3

(***************************************************************************)
(* Properties of Go, checked under SpecGo                                  *)
(***************************************************************************)
\* the values call i of Go has sent on res
SentBy(i) == {k \in DOMAIN res : res[k].from = i}

\* C14: each call of Go sends nothing before its runner has finished and
\* exactly one value once it has: the value Run returned, or, when Run
\* panicked, a non-nil error that wraps the panic value if it is an error and
\* prints it otherwise; the panic never leaves the goroutine.
C14_GoSendsOneResult ==
  \A i \in GoCalls :
    /\ gorPc[i] # "crashed"
    /\ Cardinality(SentBy(i)) = (IF gorPc[i] = "done" THEN 1 ELSE 0)
    /\ gorPc[i] = "done" => (gorRet[i] # <<>> \/ gorPan[i] # NoPanic)
    /\ \A k \in SentBy(i) :
         IF gorPan[i] = NoPanic
         THEN res[k].val = gorRet[i][1]
         ELSE /\ gorRet[i] = <<>>
              /\ res[k].val # Nil
              /\ PayloadIn(res[k].val, gorPan[i])
              /\ gorPan[i].isErr => res[k].val.subs = <<gorPan[i].err>>

C14_Witness ==
  /\ \A i \in GoCalls : gorPc[i] = "done"
  /\ Len(res) = MaxGoCalls
  /\ \E k \in DOMAIN res : res[k].val = InnerErr("r")
  /\ \E k \in DOMAIN res : res[k].val = GoRecover(PanicErr(InnerErr("r")))
  /\ \E k \in DOMAIN res : res[k].val = GoRecover(PanicVal("eek"))

(***************************************************************************)
(* Properties of Killer, checked under SpecKiller                          *)
(***************************************************************************)
\* the queued commands whose cancel function was not called before Close
NotCancelled(e) == ~e.cancelled

\* what the helper is to run: those commands, in the order they were queued
Expected ==
  LET keep == SelectSeq(kqueued, NotCancelled)
  IN [i \in DOMAIN keep |-> [seq |-> keep[i].seq, cmd |-> keep[i].cmd]]

\* C17: a command whose cancel function was called is never run, no command
\* is run twice, and when the helper has finished it has run exactly the
\* queued commands that were not cancelled, each once, in the order queued.
C17_RunsUncancelledInOrder ==
  /\ \A i \in DOMAIN hran :
       \E j \in DOMAIN kqueued :
         /\ kqueued[j].seq = hran[i].seq
         /\ kqueued[j].cmd = hran[i].cmd
         /\ ~kqueued[j].cancelled
  /\ \A i, j \in DOMAIN hran : i < j => hran[i].seq < hran[j].seq
  /\ hpc = "done" => hran = Expected

\* with commands of one line the helper does what C17 says
KillerOneLineCommands ==
  (\A j \in DOMAIN kqueued : Len(kqueued[j].cmd) = 1) => C17_RunsUncancelledInOrder

\* C28: the sequence number a cancel function holds is the index at which the
\* helper stored that command, so once the helper has read everything written
\* the element of a command whose cancel function was called is empty.
C28_SeqIsHelperIndex ==
  \A j \in DOMAIN kqueued :
    LET e == kqueued[j]
    IN /\ e.seq \in DOMAIN hindex => hindex[e.seq] = e.seq
       /\ (kpipe = <<>> /\ hpc # "idle" /\ e.cancelled) =>
            /\ e.seq \in DOMAIN hindex
            /\ hindex[e.seq] \in DOMAIN hcmds
            /\ hcmds[hindex[e.seq]] = <<Empty>>

\* with commands of one line every sequence number is the helper's index
KillerOneLineIndex ==
  (\A j \in DOMAIN kqueued : Len(kqueued[j].cmd) = 1) => C28_SeqIsHelperIndex

\* the calls of OnExit on k that queued the command of the j-th call of Kill
QueuedOnK(j) == {q \in DOMAIN kqueued : kqueued[q].cmd = kkills[j].cmd}

\* C29: Kill called on a Killer k made by NewKiller queues its kill command
\* on k itself, and the cancel function it returns cancels that command in
\* k's queue: every call of k.Kill has its command among the commands queued
\* on k, cancelled there once its cancel function was called, and k's helper
\* runs the command at exit unless it was cancelled.
C29_KillQueuesOnItself ==
  \A j \in DOMAIN kkills :
    /\ QueuedOnK(j) # {}
    /\ kkills[j].cancelled => \E q \in QueuedOnK(j) : kqueued[q].cancelled
    /\ (hpc = "done" /\ ~kkills[j].cancelled) =>
         \E r \in DOMAIN hran : hran[r].cmd = kkills[j].cmd

\* what the code does instead: the record of every call of k.Kill is in the
\* pipe of DefaultKiller, and no call of k.Kill changes anything of k
KillQueuesOnDefaultKiller ==
  /\ \A j \in DOMAIN kkills :
       \E i \in DOMAIN dpipe :
         dpipe[i].pre = "exit" /\ dpipe[i].rest = <<kkills[j].cmd[1]>>
  /\ \A j \in DOMAIN kkills : QueuedOnK(j) = {}
  /\ \A j \in DOMAIN kkills :
       kkills[j].cancelled =>
         \E i \in DOMAIN dpipe :
           dpipe[i].pre = "cancel" /\ dpipe[i].num = kkills[j].seq

TypeOK ==
  /\ g \subseteq Names \cup ReadyMembers
  /\ gpc \in {"idle", "running", "returned"}
  /\ iter \in 0..Cardinality(g)
=============================================================================
